---------------------------- MODULE Spec2Model ----------------------------
(***************************************************************************)
(* A model of notes/plot_from_csv.py: the loader read_multiplier_data, the *)
(* chart pipeline create_multiplier_charts, the extractor                  *)
(* parse_forge_output and the top-level flow main.                         *)
(*                                                                         *)
(* A data frame is a record [columns, rows]: the column names in order and *)
(* the rows as tuples.  The integer columns hold integers; a float cell is *)
(* the exact rational [n, d] of the quotient that produced it (d > 0, in   *)
(* lowest terms), and NaN is [n |-> 0, d |-> 0].  Where the binary value   *)
(* of a float matters (a decimal tie when it is formatted) the side on     *)
(* which the IEEE double lies is computed from the quotient (FloatSide).   *)
(* An optional Python value is a sequence: <<>> is None, <<v>> is v.       *)
(***************************************************************************)
EXTENDS Integers, Sequences, FiniteSets, TLC

\* ------------------------------------------------------------- bounds
MaxRows == 4        \* rows of an input table
MaxCalls == 2       \* calls of create_multiplier_charts on one table
MaxText == 5        \* pieces of an extractor input text

\* ------------------------------------------------- program constants
Scale == 10000          \* df['multiplier'] / 10000
BaseMultiplier == 10000 \* base_multiplier
Percent == 100          \* total_bonus / 100
FilterDays == 365       \* df['lockup_days'] == 365
MantissaBits == 52      \* fraction bits of a float64

Header == <<"tokens", "lockup_days", "multiplier">>
Colors == <<"gray", "blue", "green", "orange", "black">>

\* ------------------------------------------------------ small helpers
Abs(x) == IF x < 0 THEN -x ELSE x

RECURSIVE GCD(_, _)
GCD(a, b) == IF b = 0 THEN a ELSE GCD(b, a % b)

RECURSIVE Pow10(_)
Pow10(p) == IF p = 0 THEN 1 ELSE 10 * Pow10(p - 1)

RECURSIVE Pow2(_)
Pow2(k) == IF k = 0 THEN 1 ELSE 2 * Pow2(k - 1)

\* 2^k modulo d (d <= 10000), by repeated squaring
RECURSIVE PowMod2(_, _)
PowMod2(k, d) ==
    IF k = 0 THEN 1 % d
    ELSE LET h == PowMod2(k \div 2, d)
         IN  (((h * h) % d) * (IF k % 2 = 1 THEN 2 ELSE 1)) % d

Range(s) == {s[i] : i \in 1..Len(s)}

RECURSIVE SeqsUpTo(_, _)
SeqsUpTo(S, n) ==
    IF n = 0 THEN {<<>>}
    ELSE LET shorter == SeqsUpTo(S, n - 1)
         IN  shorter \cup {Append(s, x) : s \in {t \in shorter : Len(t) = n - 1}, x \in S}

\* the elements of a set of integers in ascending order: sorted(...)
RECURSIVE SortedSet(_)
SortedSet(S) ==
    IF S = {} THEN <<>>
    ELSE LET m == CHOOSE x \in S : \A y \in S : x <= y
         IN  <<m>> \o SortedSet(S \ {m})

\* ------------------------------------------------------------ floats
NaN == [n |-> 0, d |-> 0]
IsNaN(x) == x.d = 0

\* the quotient a / b of true division (b > 0), in lowest terms
Rat(a, b) ==
    LET g == GCD(Abs(a), b)
    IN  [n |-> a \div g, d |-> b \div g]

\* the binary exponent e of a/d (a, d > 0): d * 2^e <= a < d * 2^(e+1)
RECURSIVE ExpUp(_, _, _)
ExpUp(a, d, e) == IF d * Pow2(e + 1) <= a THEN ExpUp(a, d, e + 1) ELSE e
RECURSIVE ExpDown(_, _, _)
ExpDown(a, d, j) == IF a * Pow2(j) < d THEN ExpDown(a, d, j + 1) ELSE j
BinExp(a, d) == IF a >= d THEN ExpUp(a, d, 0) ELSE 0 - ExpDown(a, d, 0)

\* where the float64 nearest to a/d (a >= 0, d > 0) lies: -1 below a/d, 0 on
\* it, 1 above.  The significand is a * 2^(52 - e) / d rounded to an integer;
\* r is the remainder of that division.  (2r = d, a binary tie, needs
\* 2^(52-e) not to be a multiple of the power of two in d: no value below
\* 2^48 has one.)
FloatSide(a, d) ==
    IF a = 0 THEN 0
    ELSE LET k == MantissaBits - BinExp(a, d)
             r == ((a % d) * PowMod2(k, d)) % d
         IN  IF r = 0 THEN 0 ELSE IF 2 * r < d THEN -1 ELSE 1

\* f"{x:.pf}" of the float x = a/d: the sign and the digits as an integer
\* count of 10^-p units, correctly rounded from the float's binary value,
\* half to even when the float is exactly the decimal tie.
FormatTrunc(a, d, p) ==
    IF d = 0 THEN [nan |-> TRUE, neg |-> FALSE, units |-> 0]
    ELSE [nan |-> FALSE, neg |-> a < 0, units |-> (Abs(a) * Pow10(p)) \div d]

FormatFixed(a, d, p) ==
    IF d = 0 THEN [nan |-> TRUE, neg |-> FALSE, units |-> 0]
    ELSE LET m == Abs(a)
             q == (m * Pow10(p)) \div d
             r == (m * Pow10(p)) % d
             side == FloatSide(m, d)
             up == \/ 2 * r > d
                   \/ 2 * r = d /\ side > 0
                   \/ 2 * r = d /\ side = 0 /\ q % 2 = 1
         IN  [nan |-> FALSE, neg |-> a < 0, units |-> IF up THEN q + 1 ELSE q]


\* ------------------------------------------------------- data frames
HasCol(df, c) == \E i \in 1..Len(df.columns) : df.columns[i] = c
ColIdx(df, c) == CHOOSE i \in 1..Len(df.columns) : df.columns[i] = c
Cell(df, row, c) == row[ColIdx(df, c)]

\* df[c]: the column as a sequence
Column(df, c) == [i \in 1..Len(df.rows) |-> Cell(df, df.rows[i], c)]

\* df[df[c] == v]: the rows kept in order, in a new frame
RECURSIVE FilterRows(_, _, _)
FilterRows(df, c, v) ==
    IF df.rows = <<>> THEN df
    ELSE LET rest == FilterRows([df EXCEPT !.rows = Tail(df.rows)], c, v)
         IN  IF Cell(df, Head(df.rows), c) = v
             THEN [rest EXCEPT !.rows = <<Head(df.rows)>> \o rest.rows]
             ELSE rest

\* insert a row after the rows whose key is not larger
RECURSIVE InsertByKey(_, _, _)
InsertByKey(rows, row, k) ==
    IF rows = <<>> THEN <<row>>
    ELSE IF Head(rows)[k] <= row[k]
         THEN <<Head(rows)>> \o InsertByKey(Tail(rows), row, k)
         ELSE <<row>> \o rows

RECURSIVE SortRows(_, _)
SortRows(rows, k) ==
    IF rows = <<>> THEN <<>>
    ELSE InsertByKey(SortRows(SubSeq(rows, 1, Len(rows) - 1), k), rows[Len(rows)], k)

\* df.sort_values(c): a new frame, ascending in c (rows of equal key keep
\* their order, as numpy's sort of a short array leaves them)
SortValues(df, c) == [df EXCEPT !.rows = SortRows(df.rows, ColIdx(df, c))]

\* the largest of a non-empty column
MaxOf(col) == CHOOSE x \in Range(col) : \A y \in Range(col) : y <= x
MinOf(col) == CHOOSE x \in Range(col) : \A y \in Range(col) : x <= y

\* --------------------------------------------------------- the loader
None == <<>>
Some(v) == <<v>>
EmptyText == [header |-> <<>>, body |-> <<>>]
\* Python truth of an optional string: None and "" are false.  A path is a
\* string; a CSV text is its lines, and "" is the text with no line.
TruthyPath(opt) == opt # None /\ opt[1] # ""
TruthyText(opt) == opt # None /\ opt[1] # EmptyText

\* pd.read_csv of a text: the header line names the columns, every other
\* line is a row; a text with no line at all raises EmptyDataError
ReadCsv(text) ==
    IF text = EmptyText
    THEN [kind |-> "raise", exc |-> "EmptyDataError"]
    ELSE [kind |-> "return", df |-> [columns |-> text.header, rows |-> text.body]]

\* pd.read_csv of a path: FileNotFoundError when there is no such file
ReadCsvFile(files, path) ==
    IF path \notin DOMAIN files \/ files[path] = None
    THEN [kind |-> "raise", exc |-> "FileNotFoundError"]
    ELSE ReadCsv(files[path][1])

\* read_multiplier_data: the outcome and the sources it read, in order
ReadNeitherParsesEmpty(files, content, file) ==
    IF TruthyPath(file)
    THEN [out |-> ReadCsvFile(files, file[1]), io |-> <<"file">>]
    ELSE [out |-> ReadCsv(IF content = None THEN EmptyText ELSE content[1]),
          io |-> <<"content">>]

read_multiplier_data(files, content, file) ==
    IF TruthyPath(file)
    THEN [out |-> ReadCsvFile(files, file[1]), io |-> <<"file">>]
    ELSE IF TruthyText(content)
    THEN [out |-> ReadCsv(content[1]), io |-> <<"content">>]
    ELSE [out |-> [kind |-> "raise", exc |-> "ValueError"], io |-> <<>>]

\* ------------------------------------------- create_multiplier_charts
\* df['multiplier_decimal'] = df['multiplier'] / 10000: the column is added
\* at the end, or overwritten in place when the frame already has it
WithDecimal(df, divisor) ==
    LET have == HasCol(df, "multiplier_decimal")
        k == IF have THEN ColIdx(df, "multiplier_decimal") ELSE Len(df.columns) + 1
        val(row) == Rat(Cell(df, row, "multiplier"), divisor)
    IN  [columns |-> IF have THEN df.columns ELSE Append(df.columns, "multiplier_decimal"),
         rows |-> [i \in 1..Len(df.rows) |->
                     IF have THEN [df.rows[i] EXCEPT ![k] = val(df.rows[i])]
                     ELSE Append(df.rows[i], val(df.rows[i]))]]

\* (a variant that scales the multiplier column itself)
DeriveOverwrites(df) ==
    [df EXCEPT !.rows = [i \in 1..Len(df.rows) |->
        [df.rows[i] EXCEPT ![ColIdx(df, "multiplier")] =
            Cell(df, df.rows[i], "multiplier") \div Scale]]]

DeriveWrongScale(df) == WithDecimal(df, Scale \div 10)

Derive(df) == WithDecimal(df, Scale)

\* sorted(df['lockup_days'].unique())
LockupPeriods(df) == SortedSet(Range(Column(df, "lockup_days")))

\* one plt.plot call of the line chart: the group of one lockup period
LineSeries(df, lockup, color) ==
    LET data == SortValues(FilterRows(df, "lockup_days", lockup), "tokens")
    IN  [label |-> lockup, color |-> color,
         xs |-> Column(data, "tokens"), ys |-> Column(data, "multiplier_decimal")]

\* the first figure (lines 28-55), once plt.show() is reached
LineFigure(df) ==
    LET periods == LockupPeriods(df)
    IN  [kind |-> "line",
         series |-> [i \in 1..Len(periods) |-> LineSeries(df, periods[i], Colors[i])],
         xmax |-> Rat(MaxOf(Column(df, "tokens")) * 105, 100)]

\* df[df['lockup_days'] == 365].sort_values('tokens')
Df365(df) == SortValues(FilterRows(df, "lockup_days", FilterDays), "tokens")

\* one row of comparison_data (lines 81-85)
ComparisonRow(df, row) ==
    LET dec == Cell(df, row, "multiplier_decimal")
    IN  [amount |-> Cell(df, row, "tokens"),
         multiplier |-> FormatFixed(dec.n, dec.d, 3),
         bonus |-> FormatFixed(Cell(df, row, "multiplier") - BaseMultiplier, Percent, 1)]

\* the second figure (lines 58-103)
BonusFigure(df) ==
    LET d365 == Df365(df)
    IN  [kind |-> "bonus",
         xs |-> Column(d365, "tokens"),
         ys |-> [i \in 1..Len(d365.rows) |->
                   Rat(Cell(d365, d365.rows[i], "multiplier") - BaseMultiplier, Percent)],
         xmax |-> Rat(MaxOf(Column(d365, "tokens")) * 105, 100),
         table |-> [i \in 1..Len(d365.rows) |-> ComparisonRow(d365, d365.rows[i])]]

\* the values of a column in the order of their first occurrence
RECURSIVE FirstSeen(_)
FirstSeen(col) ==
    IF col = <<>> THEN <<>>
    ELSE LET init == FirstSeen(SubSeq(col, 1, Len(col) - 1))
         IN  IF col[Len(col)] \in Range(init) THEN init ELSE Append(init, col[Len(col)])

\* the (tokens, lockup_days) pairs of the frame, one per row
Pairs(df) ==
    [i \in 1..Len(df.rows) |->
        <<Cell(df, df.rows[i], "tokens"), Cell(df, df.rows[i], "lockup_days")>>]

HasDuplicatePair(df) ==
    \E i, j \in 1..Len(df.rows) : i < j /\ Pairs(df)[i] = Pairs(df)[j]

\* df.pivot(index='tokens', columns='lockup_days', values='multiplier_decimal'):
\* ValueError when a pair occurs twice; otherwise the grid over the sorted
\* distinct tokens and lockup_days, NaN where the frame has no such row
PivotCell(df, t, d) ==
    IF \E i \in 1..Len(df.rows) : Pairs(df)[i] = <<t, d>>
    THEN Cell(df, df.rows[CHOOSE i \in 1..Len(df.rows) : Pairs(df)[i] = <<t, d>>],
              "multiplier_decimal")
    ELSE NaN

PivotGrid(df, index, columns) ==
    [kind |-> "return", index |-> index, columns |-> columns,
     values |-> [i \in 1..Len(index) |->
                   [j \in 1..Len(columns) |-> PivotCell(df, index[i], columns[j])]]]

PivotUnsorted(df) ==
    IF HasDuplicatePair(df) THEN [kind |-> "raise", exc |-> "ValueError"]
    ELSE PivotGrid(df, FirstSeen(Column(df, "tokens")),
                   SortedSet(Range(Column(df, "lockup_days"))))

PivotRejectsGaps(df) ==
    LET index == SortedSet(Range(Column(df, "tokens")))
        columns == SortedSet(Range(Column(df, "lockup_days")))
    IN  IF HasDuplicatePair(df) \/ Len(df.rows) # Len(index) * Len(columns)
        THEN [kind |-> "raise", exc |-> "ValueError"]
        ELSE PivotGrid(df, index, columns)

Pivot(df) ==
    IF HasDuplicatePair(df) THEN [kind |-> "raise", exc |-> "ValueError"]
    ELSE PivotGrid(df, SortedSet(Range(Column(df, "tokens"))),
                   SortedSet(Range(Column(df, "lockup_days"))))

\* the third figure (lines 106-132) of a pivot that returned
HeatmapFigure(pivot_df) ==
    [kind |-> "heatmap", index |-> pivot_df.index, columns |-> pivot_df.columns,
     values |-> pivot_df.values,
     text |-> [i \in 1..Len(pivot_df.index) |->
                 [j \in 1..Len(pivot_df.columns) |->
                    FormatFixed(pivot_df.values[i][j].n, pivot_df.values[i][j].d, 3)]]]

\* ------------------------------------------------- parse_forge_output
\* A Python string is the sequence of its characters.
Digits == {"0", "1", "2", "3", "4", "5", "6", "7", "8", "9"}
Whitespace == {" ", "\t", "\n", "\r"}
HeaderLine ==
    << "t", "o", "k", "e", "n", "s", ",",
       "l", "o", "c", "k", "u", "p", "_", "d", "a", "y", "s", ",",
       "m", "u", "l", "t", "i", "p", "l", "i", "e", "r" >>

\* str.lstrip(), str.rstrip(), str.strip()
RECURSIVE LStrip(_)
LStrip(s) == IF s # <<>> /\ Head(s) \in Whitespace THEN LStrip(Tail(s)) ELSE s
RECURSIVE RStrip(_)
RStrip(s) ==
    IF s # <<>> /\ s[Len(s)] \in Whitespace THEN RStrip(SubSeq(s, 1, Len(s) - 1)) ELSE s
Strip(s) == RStrip(LStrip(s))

\* str.split(sep): the pieces between the separators, at least one
RECURSIVE Split(_, _)
Split(s, sep) ==
    LET at == {i \in 1..Len(s) : s[i] = sep}
    IN  IF at = {} THEN <<s>>
        ELSE LET first == CHOOSE i \in at : \A j \in at : i <= j
             IN  <<SubSeq(s, 1, first - 1)>> \o Split(SubSeq(s, first + 1, Len(s)), sep)

\* str.replace(c, ''): every occurrence of the character removed
Remove(s, c) == SelectSeq(s, LAMBDA x : x # c)

\* str.isdigit(): not empty and every character a digit (of the decimal
\* digits; the alphabet of the inputs has no other Unicode digit)
IsDigit(s) == s # <<>> /\ \A i \in 1..Len(s) : s[i] \in Digits

\* sep.join(list)
RECURSIVE Join(_, _)
Join(list, sep) ==
    IF list = <<>> THEN <<>>
    ELSE IF Len(list) = 1 THEN Head(list)
    ELSE Head(list) \o <<sep>> \o Join(Tail(list), sep)

\* lines 143-146: whether the loop appends line.strip()
KeepsCommaFree(line) ==
    \/ IsDigit(Remove(Remove(line, ","), " "))
    \/ Strip(line) = HeaderLine

Keeps(line) ==
    \/ "," \in Range(line) /\ IsDigit(Remove(Remove(line, ","), " "))
    \/ Strip(line) = HeaderLine

\* ------------------------------------------------------------ inputs
\* The rows an input table is made of: the grid of the specification's
\* example, a second record for the pair (100, 365) and a record of a third
\* token amount; 10625 and 9995 are multipliers whose displays are decimal
\* ties (1.0625, 0.9995, 6.25, -0.05), 10007 one whose displays are rounded
\* up (1.0007, 0.07).
RowPool ==
    { <<100, 30, 10000>>, <<100, 365, 15000>>, <<200, 30, 10050>>,
      <<200, 365, 15200>>, <<100, 365, 10625>>, <<300, 365, 9995>>,
      <<200, 365, 10007>> }

SpecGrid ==
    [columns |-> Header,
     rows |-> << <<100, 30, 10000>>, <<100, 365, 15000>>,
                 <<200, 30, 10050>>, <<200, 365, 15200>> >>]

\* one token amount at one lockup period more than there are colors
Ladder ==
    [columns |-> Header,
     rows |-> [i \in 1..(Len(Colors) + 1) |-> <<100, 30 * i, BaseMultiplier>>]]

\* a table whose multiplier column has another name
Misnamed(rows) == [columns |-> <<"tokens", "lockup_days", "mult">>, rows |-> rows]

InputTables ==
    {[columns |-> Header, rows |-> r] : r \in SeqsUpTo(RowPool, MaxRows)}
        \cup {Misnamed(r) : r \in SeqsUpTo(RowPool, 1)}
        \cup {Ladder}

CsvOf(table) == [header |-> table.columns, body |-> table.rows]
CsvTexts == {CsvOf(t) : t \in InputTables} \cup {EmptyText}
DataFile == "multipliers.csv"
NoFrame == [columns |-> <<>>, rows |-> <<>>]

\* ------------------------------------------------------------- state
VARIABLES
    entry,      \* what is run: "main", "charts" (create_multiplier_charts on a
                \* table of the caller), "loader" or "extractor"
    files,      \* the working directory: file name -> None or Some(CSV text)
    df,         \* the table (main's local df, the caller's table)
    dfBound,    \* whether main's local df has been assigned
    pc,         \* the statement about to run
    err,        \* the exception that ended the run, or "none"
    stdout,     \* what has been printed
    figures,    \* the figures plt.show() has displayed, in order
    trace,      \* the steps begun, in order
    calls,      \* calls of create_multiplier_charts begun
    df0,        \* the table as it was when create_multiplier_charts was first called
    returned,   \* the table at each return of create_multiplier_charts
    csv_content, csv_file,  \* the arguments of read_multiplier_data
    loaded,     \* None, or Some(outcome and sources read) of the loader call
    forge_output_text,      \* the argument of parse_forge_output
    lines, csv_lines,       \* its locals
    output      \* None, or Some(its return value)

vars == <<entry, files, df, dfBound, pc, err, stdout, figures, trace, calls, df0,
          returned, csv_content, csv_file, loaded, forge_output_text, lines,
          csv_lines, output>>
runVars == <<entry, files, df, dfBound, pc, err, stdout, figures, trace, calls,
             df0, returned>>
loaderVars == <<csv_content, csv_file, loaded>>
extractorVars == <<forge_output_text, lines, csv_lines, output>>

LoaderIdle == csv_content = None /\ csv_file = None /\ loaded = None
ExtractorIdle ==
    forge_output_text = <<>> /\ lines = <<>> /\ csv_lines = <<>> /\ output = None

\* --------------------------------------------------- main and charts
Init ==
    /\ LoaderIdle /\ ExtractorIdle
    /\ err = "none" /\ stdout = <<>> /\ figures = <<>> /\ trace = <<>>
    /\ returned = <<>>
    /\ \/ /\ entry = "main"
          /\ files \in [{DataFile} -> {None} \cup {Some(t) : t \in CsvTexts}]
          /\ df = NoFrame /\ dfBound = FALSE /\ df0 = NoFrame
          /\ calls = 0
          /\ pc = "main_load"
       \/ /\ entry = "charts"
          /\ files = [f \in {DataFile} |-> None]
          /\ df \in InputTables /\ dfBound = TRUE /\ df0 = df
          /\ calls = 1
          /\ pc = "derive"

\* an exception nothing catches: it leaves create_multiplier_charts and main
PropagateSwallowed(exc) == pc' = "summary" /\ err' = exc

Propagate(exc) == pc' = "error" /\ err' = exc

Guidance ==
    << [msg |-> "CSV file not found. Please provide data using one of these methods:"],
       [msg |-> "1. Save forge script output to 'multiplier_data.csv'"],
       [msg |-> "2. Pipe forge output to this script"],
       [msg |-> "3. Use the sample data below"] >>

\* main, lines 156-163: the try block and its except FileNotFoundError
MainLoad ==
    /\ pc = "main_load"
    /\ trace' = Append(trace, "load")
    /\ LET r == read_multiplier_data(files, None, Some(DataFile)).out
       IN  IF r.kind = "return"
           THEN /\ df' = r.df /\ dfBound' = TRUE
                /\ stdout' = Append(stdout, [msg |-> "Reading from CSV file..."])
                /\ pc' = "main_charts" /\ err' = err
           ELSE IF r.exc = "FileNotFoundError"
           THEN /\ stdout' = stdout \o Guidance
                /\ pc' = "main_charts" /\ err' = err
                /\ UNCHANGED <<df, dfBound>>
           ELSE /\ Propagate(r.exc)
                /\ UNCHANGED <<df, dfBound, stdout>>
    /\ UNCHANGED <<entry, files, figures, calls, df0, returned>>
    /\ UNCHANGED <<loaderVars, extractorVars>>

\* (a variant that enters the renderer whether or not df is bound)
MainCallChartsUnchecked ==
    /\ pc = "main_charts"
    /\ pc' = "derive" /\ calls' = calls + 1 /\ df0' = df /\ err' = err
    /\ UNCHANGED <<entry, files, df, dfBound, stdout, figures, trace, returned>>
    /\ UNCHANGED <<csv_content, csv_file, loaded, forge_output_text, lines, csv_lines, output>>

\* main, line 166: the name df is read, and unbound when the load failed
MainCallCharts ==
    /\ pc = "main_charts"
    /\ IF dfBound
       THEN /\ pc' = "derive" /\ calls' = calls + 1 /\ df0' = df /\ err' = err
       ELSE /\ Propagate("UnboundLocalError") /\ UNCHANGED <<calls, df0>>
    /\ UNCHANGED <<entry, files, df, dfBound, stdout, figures, trace, returned>>
    /\ UNCHANGED <<loaderVars, extractorVars>>

\* create_multiplier_charts, line 25
ChartsDerive ==
    /\ pc = "derive"
    /\ trace' = Append(trace, "derive")
    /\ IF HasCol(df, "multiplier")
       THEN df' = Derive(df) /\ pc' = "line" /\ err' = err
       ELSE Propagate("KeyError") /\ df' = df
    /\ UNCHANGED <<entry, files, dfBound, stdout, figures, calls, df0, returned>>
    /\ UNCHANGED <<loaderVars, extractorVars>>

\* lines 28-55: colors[i] of a sixth lockup period raises IndexError; the
\* maximum of an empty column is NaN, which plt.xlim refuses (ValueError)
ChartsLine ==
    /\ pc = "line"
    /\ trace' = Append(trace, "line")
    /\ IF Len(LockupPeriods(df)) > Len(Colors)
       THEN Propagate("IndexError") /\ figures' = figures
       ELSE IF df.rows = <<>>
       THEN Propagate("ValueError") /\ figures' = figures
       ELSE figures' = Append(figures, LineFigure(df)) /\ pc' = "bonus" /\ err' = err
    /\ UNCHANGED <<entry, files, df, dfBound, stdout, calls, df0, returned>>
    /\ UNCHANGED <<loaderVars, extractorVars>>

\* lines 58-103: with no 365-day row the x limit is NaN (ValueError)
ChartsBonus ==
    /\ pc = "bonus"
    /\ trace' = Append(trace, "bonus")
    /\ IF Df365(df).rows = <<>>
       THEN Propagate("ValueError") /\ figures' = figures
       ELSE figures' = Append(figures, BonusFigure(df)) /\ pc' = "heatmap" /\ err' = err
    /\ UNCHANGED <<entry, files, df, dfBound, stdout, calls, df0, returned>>
    /\ UNCHANGED <<loaderVars, extractorVars>>

\* lines 106-132, and the return to the caller
ChartsHeatmap ==
    /\ pc = "heatmap"
    /\ trace' = Append(trace, "heatmap")
    /\ LET pivot_df == Pivot(df)
       IN  IF pivot_df.kind = "raise"
           THEN Propagate(pivot_df.exc) /\ UNCHANGED <<figures, returned>>
           ELSE /\ figures' = Append(figures, HeatmapFigure(pivot_df))
                /\ returned' = Append(returned, df)
                /\ pc' = (IF entry = "main" THEN "summary" ELSE "returned")
                /\ err' = err
    /\ UNCHANGED <<entry, files, df, dfBound, stdout, calls, df0>>
    /\ UNCHANGED <<loaderVars, extractorVars>>

\* main, lines 169-174
Summary(table) ==
    << [msg |-> "Summary Statistics:"],
       [msg |-> "=================================================="],
       [msg |-> "Token amounts tested", val |-> SortedSet(Range(Column(table, "tokens")))],
       [msg |-> "Lockup periods tested", val |-> SortedSet(Range(Column(table, "lockup_days")))],
       [msg |-> "Multiplier range", val |-> <<MinOf(Column(table, "multiplier")),
                                              MaxOf(Column(table, "multiplier"))>>],
       [msg |-> "Max multiplier",
        val |-> LET x == Rat(MaxOf(Column(table, "multiplier")), Scale)
                IN  FormatFixed(x.n, x.d, 3)] >>

MainSummary ==
    /\ pc = "summary"
    /\ trace' = Append(trace, "summary")
    /\ stdout' = stdout \o Summary(df)
    /\ pc' = "done"
    /\ UNCHANGED <<entry, files, df, dfBound, err, figures, calls, df0, returned>>
    /\ UNCHANGED <<loaderVars, extractorVars>>

\* the caller of create_multiplier_charts passes the same table again
CallAgain ==
    /\ pc = "returned"
    /\ calls < MaxCalls
    /\ calls' = calls + 1
    /\ pc' = "derive"
    /\ UNCHANGED <<entry, files, df, dfBound, err, stdout, figures, trace, df0, returned>>
    /\ UNCHANGED <<loaderVars, extractorVars>>

Next ==
    \/ MainLoad
    \/ MainCallCharts
    \/ ChartsDerive
    \/ ChartsLine
    \/ ChartsBonus
    \/ ChartsHeatmap
    \/ MainSummary
    \/ CallAgain

Spec == Init /\ [][Next]_vars

\* --------------------------------------------------------- the loader
\* read_multiplier_data called on its own, with every combination of a
\* content argument (None, "", a CSV text) and a file argument (None, "",
\* the name of the data file, another name) in a directory where the data
\* file is missing, empty or holds a CSV text.
SmallTexts == {CsvOf(t) : t \in {[columns |-> Header, rows |-> r] : r \in SeqsUpTo(RowPool, 1)}}
RunIdle ==
    /\ df = NoFrame /\ dfBound = FALSE /\ df0 = NoFrame /\ calls = 0
    /\ err = "none" /\ stdout = <<>> /\ figures = <<>> /\ trace = <<>>
    /\ returned = <<>>

InitLoader ==
    /\ RunIdle /\ ExtractorIdle
    /\ entry = "loader" /\ pc = "call"
    /\ files \in [{DataFile} -> {None, Some(EmptyText)} \cup {Some(t) : t \in SmallTexts}]
    /\ csv_content \in {None, Some(EmptyText)} \cup {Some(t) : t \in SmallTexts}
    /\ csv_file \in {None, Some(""), Some(DataFile), Some("other.csv")}
    /\ loaded = None

LoaderCall ==
    /\ pc = "call"
    /\ loaded' = Some(read_multiplier_data(files, csv_content, csv_file))
    /\ pc' = "called"
    /\ UNCHANGED <<entry, files, df, dfBound, err, stdout, figures, trace, calls, df0,
                   returned, csv_content, csv_file>>
    /\ UNCHANGED extractorVars

NextLoader == LoaderCall

SpecLoader == InitLoader /\ [][NextLoader]_vars

\* ------------------------------------------------------ the extractor
\* parse_forge_output called on a text of up to MaxText pieces: a digit, a
\* comma, a space, a tab, a letter, a line break or the header line.
Pieces == { <<"1">>, <<",">>, <<" ">>, <<"\t">>, <<"x">>, <<"\n">>, HeaderLine }

RECURSIVE Texts(_)
Texts(n) ==
    IF n = 0 THEN {<<>>}
    ELSE LET shorter == Texts(n - 1)
         IN  shorter \cup {t \o piece : t \in shorter, piece \in Pieces}

InitExtractor ==
    /\ RunIdle /\ LoaderIdle
    /\ entry = "extractor" /\ pc = "split"
    /\ files = [f \in {DataFile} |-> None]
    /\ forge_output_text \in Texts(MaxText)
    /\ lines = <<>> /\ csv_lines = <<>> /\ output = None

\* line 138
ExtractSplit ==
    /\ pc = "split"
    /\ lines' = Split(Strip(forge_output_text), "\n")
    /\ pc' = "loop"
    /\ UNCHANGED <<forge_output_text, csv_lines, output>>
    /\ UNCHANGED <<entry, files, df, dfBound, err, stdout, figures, trace, calls, df0, returned>>
    /\ UNCHANGED loaderVars

\* lines 141-146: one iteration; lines holds the lines still to visit
ExtractLine ==
    /\ pc = "loop" /\ lines # <<>>
    /\ csv_lines' = (IF Keeps(Head(lines)) THEN Append(csv_lines, Strip(Head(lines)))
                     ELSE csv_lines)
    /\ lines' = Tail(lines)
    /\ UNCHANGED <<forge_output_text, output, pc>>
    /\ UNCHANGED <<entry, files, df, dfBound, err, stdout, figures, trace, calls, df0, returned>>
    /\ UNCHANGED loaderVars

\* line 148
ExtractReturn ==
    /\ pc = "loop" /\ lines = <<>>
    /\ output' = Some(Join(csv_lines, "\n"))
    /\ pc' = "done"
    /\ UNCHANGED <<forge_output_text, lines, csv_lines>>
    /\ UNCHANGED <<entry, files, df, dfBound, err, stdout, figures, trace, calls, df0, returned>>
    /\ UNCHANGED loaderVars

NextExtractor == ExtractSplit \/ ExtractLine \/ ExtractReturn

SpecExtractor == InitExtractor /\ [][NextExtractor]_vars

\* ------------------------------------------------- claims: the loader
\* C1 as stated: a call of read_multiplier_data with both a file path and a
\* text supplied (non-empty) raises ValueError and reads neither source.
C1_BothRejected ==
    (loaded # None /\ TruthyPath(csv_file) /\ TruthyText(csv_content)) =>
        /\ loaded[1].out.kind = "raise"
        /\ loaded[1].out.exc = "ValueError"
        /\ loaded[1].io = <<>>

\* C2: a call of read_multiplier_data with neither a file path nor a text
\* raises ValueError, returns no table and reads or parses nothing.
C2_NeitherRejected ==
    (loaded # None /\ csv_file = None /\ csv_content = None) =>
        /\ loaded[1].out.kind = "raise"
        /\ loaded[1].out.exc = "ValueError"
        /\ loaded[1].io = <<>>

C2_Witness ==
    /\ loaded # None /\ csv_file = None /\ csv_content = None
    /\ files[DataFile] # None /\ files[DataFile] # Some(EmptyText)

\* ---------------------------------------------- claims: the extractor
\* the text cut at its line breaks, and a string without the whitespace at
\* its ends, by position
BreaksOf(s) == {i \in 1..Len(s) : s[i] = "\n"}
LineFrom(s, i) ==
    LET stop == {j \in BreaksOf(s) : j >= i}
    IN  SubSeq(s, i, (IF stop = {} THEN Len(s) + 1
                      ELSE CHOOSE j \in stop : \A k \in stop : j <= k) - 1)
LinesOf(s) ==
    LET starts == SortedSet({1} \cup {i + 1 : i \in BreaksOf(s)})
    IN  [k \in 1..Len(starts) |-> LineFrom(s, starts[k])]
Trimmed(s) ==
    LET ink == {i \in 1..Len(s) : s[i] \notin Whitespace}
    IN  IF ink = {} THEN <<>>
        ELSE SubSeq(s, CHOOSE i \in ink : \A j \in ink : i <= j,
                       CHOOSE i \in ink : \A j \in ink : j <= i)
AllDigitsBut(line, skipped) ==
    /\ \E i \in 1..Len(line) : line[i] \in Digits
    /\ \A i \in 1..Len(line) : line[i] \in Digits \cup skipped
\* the elements of a list at the positions K, in their order
Selected(list, K) == LET at == SortedSet(K) IN [k \in 1..Len(at) |-> list[at[k]]]
RECURSIVE Flat(_)
Flat(list) ==
    IF list = <<>> THEN <<>>
    ELSE Head(list) \o (IF Len(list) > 1 THEN <<"\n">> ELSE <<>>) \o Flat(Tail(list))

\* C3 as stated: the result is the kept lines of the text in their order,
\* joined by line breaks, a line being kept exactly when it is the literal
\* header or, commas and spaces removed, consists of digits.
KeptAsStated(line) == line = HeaderLine \/ AllDigitsBut(line, {",", " "})

C3_KeptAsStated ==
    output # None =>
        LET all == LinesOf(forge_output_text)
        IN  output[1] = Flat(Selected(all, {k \in 1..Len(all) : KeptAsStated(all[k])}))

\* C3 as amended: the whitespace at the ends of the text is dropped first;
\* a line is kept exactly when, without the whitespace at its ends, it is
\* the literal header, or when it contains a comma and, commas and spaces
\* removed, consists of digits; the result is the kept lines in their
\* order, each without the whitespace at its ends, joined by line breaks,
\* and the empty string when no line is kept.
KeptByCode(line) ==
    \/ Trimmed(line) = HeaderLine
    \/ AllDigitsBut(line, {",", " "}) /\ \E i \in 1..Len(line) : line[i] = ","

C3_KeptLines ==
    output # None =>
        LET all == LinesOf(Trimmed(forge_output_text))
            kept == Selected(all, {k \in 1..Len(all) : KeptByCode(all[k])})
        IN  /\ output[1] = Flat([k \in 1..Len(kept) |-> Trimmed(kept[k])])
            /\ kept = <<>> => output[1] = <<>>

\* a text of two kept lines around a dropped one
C3_Witness ==
    /\ output # None
    /\ Len(LinesOf(forge_output_text)) >= 3
    /\ Cardinality(BreaksOf(output[1])) = 1
    /\ \E i \in 1..Len(output[1]) : output[1][i] = "1"

\* ------------------------------------------------ claims: the charts
Began(step) == \E i \in 1..Len(trace) : trace[i] = step
FigureKinds == [i \in 1..Len(figures) |-> figures[i].kind]
IsPrefix(s, t) == Len(s) <= Len(t) /\ \A i \in 1..Len(s) : s[i] = t[i]
Printed(m) == \E i \in 1..Len(stdout) : stdout[i].msg = m

\* the input table's records, read by column position of the CSV header
TokensOf(row) == row[1]
DaysOf(row) == row[2]
MultiplierOf(row) == row[3]
RowsWith(t, tok, days) ==
    {i \in 1..Len(t.rows) : TokensOf(t.rows[i]) = tok /\ DaysOf(t.rows[i]) = days}
TokenSet(t) == {TokensOf(t.rows[i]) : i \in 1..Len(t.rows)}
DaySet(t) == {DaysOf(t.rows[i]) : i \in 1..Len(t.rows)}
NoDuplicatePair(t) ==
    \A tok \in TokenSet(t), days \in DaySet(t) : Cardinality(RowsWith(t, tok, days)) <= 1
NoMissingPair(t) ==
    \A tok \in TokenSet(t), days \in DaySet(t) : RowsWith(t, tok, days) # {}
CompleteGrid(t) == NoDuplicatePair(t) /\ NoMissingPair(t)
Ascending(s) == \A i \in 1..(Len(s) - 1) : s[i] < s[i + 1]
\* the float x is the quotient m / 10000
IsDecimalOf(x, m) == x.d > 0 /\ x.n * Scale = m * x.d

\* C4: after the Deriver step every row satisfies
\* multiplier_decimal == multiplier / 10000, and the table has as many rows
\* as before the step.
C4_DeriverColumn ==
    HasCol(df, "multiplier_decimal") =>
        /\ Len(df.rows) = Len(df0.rows)
        /\ \A i \in 1..Len(df.rows) :
              IsDecimalOf(Cell(df, df.rows[i], "multiplier_decimal"),
                          Cell(df, df.rows[i], "multiplier"))

C4_Witness ==
    /\ HasCol(df, "multiplier_decimal")
    /\ Len(df.rows) = 3
    /\ \E i \in 1..Len(df.rows) : Cell(df, df.rows[i], "multiplier") = 15200

\* C5: when multipliers.csv is missing, main prints the guidance, never
\* enters a chart step, shows no figure, prints no summary and never
\* finishes successfully: the run goes on until it ends with the error
\* raised where the unassigned table is passed to the renderer.
FileMissing == entry = "main" /\ files[DataFile] = None

C5_MissingFile ==
    FileMissing =>
        /\ pc \in {"main_load", "main_charts", "error"}
        /\ figures = <<>>
        /\ ~Printed("Summary Statistics:")
        /\ ~Printed("Reading from CSV file...")
        /\ pc # "main_load" => stdout = Guidance
        /\ pc = "error" => err = "UnboundLocalError"
        /\ pc # "error" => ENABLED Next

C5_Witness == FileMissing /\ pc = "error" /\ stdout = Guidance

\* C6: when the heatmap step runs on a table whose (tokens, lockup_days)
\* pairs are a complete grid without a duplicate, the pivot succeeds: the
\* row index is the distinct tokens ascending, the column index the distinct
\* lockup_days ascending, and cell (t, d) is multiplier / 10000 of the one
\* record with tokens t and lockup_days d.  For the example grid the result
\* is 2 x 2 with index [100, 200] and columns [30, 365].
GridOf(f, t) ==
    /\ Ascending(f.index) /\ Range(f.index) = TokenSet(t)
    /\ Ascending(f.columns) /\ Range(f.columns) = DaySet(t)
    /\ Len(f.values) = Len(f.index)
    /\ \A i \in 1..Len(f.index) :
          /\ Len(f.values[i]) = Len(f.columns)
          /\ \A j \in 1..Len(f.columns) :
                \E r \in RowsWith(t, f.index[i], f.columns[j]) :
                    IsDecimalOf(f.values[i][j], MultiplierOf(t.rows[r]))

C6_PivotGrid ==
    (Began("heatmap") /\ CompleteGrid(df0)) =>
        /\ err = "none"
        /\ \E i \in 1..Len(figures) : figures[i].kind = "heatmap"
        /\ \A i \in 1..Len(figures) :
              figures[i].kind = "heatmap" =>
                  /\ GridOf(figures[i], df0)
                  /\ df0 = SpecGrid =>
                        /\ figures[i].index = <<100, 200>>
                        /\ figures[i].columns = <<30, 365>>
                        /\ figures[i].values =
                              << <<[n |-> 1, d |-> 1], [n |-> 3, d |-> 2]>>,
                                 <<[n |-> 201, d |-> 200], [n |-> 38, d |-> 25]>> >>

C6_Witness ==
    /\ df0 = SpecGrid /\ pc = "done"
    /\ \E i \in 1..Len(figures) : figures[i].kind = "heatmap"

\* C7: the bonus table has exactly one row per record with
\* lockup_days == 365 and none for another record, in ascending order of
\* tokens; each row shows the record's tokens, its multiplier / 10000 to 3
\* decimal places and (multiplier - 10000) / 100 to 1 decimal place (a
\* displayed value is within half a unit of its last place).  For the
\* example grid the bonuses shown are 50.0 and 52.0 for tokens 100 and 200.
Records365(t) == {i \in 1..Len(t.rows) : DaysOf(t.rows[i]) = FilterDays}
Shows(row, rec) ==
    /\ row.amount = TokensOf(rec)
    /\ ~row.multiplier.nan /\ ~row.multiplier.neg
    /\ Abs(10 * row.multiplier.units - MultiplierOf(rec)) <= 5
    /\ ~row.bonus.nan
    /\ row.bonus.neg = (MultiplierOf(rec) < BaseMultiplier)
    /\ Abs(10 * row.bonus.units - Abs(MultiplierOf(rec) - BaseMultiplier)) <= 5
BonusTableOf(table, t) ==
    /\ Len(table) = Cardinality(Records365(t))
    /\ \A k \in 1..(Len(table) - 1) : table[k].amount <= table[k + 1].amount
    /\ \E p \in [1..Len(table) -> Records365(t)] :
          /\ \A j, k \in 1..Len(table) : p[j] = p[k] => j = k
          /\ \A k \in 1..Len(table) : Shows(table[k], t.rows[p[k]])

C7_BonusTable ==
    /\ (Began("bonus") /\ Records365(df0) # {}) =>
          \E i \in 1..Len(figures) : figures[i].kind = "bonus"
    /\ \A i \in 1..Len(figures) :
          figures[i].kind = "bonus" =>
              /\ BonusTableOf(figures[i].table, df0)
              /\ df0 = SpecGrid =>
                    figures[i].table =
                        << [amount |-> 100,
                            multiplier |-> [nan |-> FALSE, neg |-> FALSE, units |-> 1500],
                            bonus |-> [nan |-> FALSE, neg |-> FALSE, units |-> 500]],
                           [amount |-> 200,
                            multiplier |-> [nan |-> FALSE, neg |-> FALSE, units |-> 1520],
                            bonus |-> [nan |-> FALSE, neg |-> FALSE, units |-> 520]] >>

\* a table of three 365-day records, not given in token order, among them
\* the decimal ties 1.0625 and -0.05
C7_Witness ==
    \E i \in 1..Len(figures) :
        /\ figures[i].kind = "bonus"
        /\ Len(figures[i].table) = 3
        /\ TokensOf(df0.rows[1]) > TokensOf(df0.rows[Len(df0.rows)])
        /\ \E j, k \in 1..3 : /\ figures[i].table[j].bonus.neg
                              /\ figures[i].table[k].multiplier.units = 1062

StepOrder == <<"load", "derive", "line", "bonus", "heatmap", "summary">>

C9_StepOrder ==
    entry = "main" =>
        /\ IsPrefix(trace, StepOrder)
        /\ IsPrefix(FigureKinds, <<"line", "bonus", "heatmap">>)
        /\ Began("bonus") => Len(figures) >= 1
        /\ Began("heatmap") => Len(figures) >= 2
        /\ (Began("summary") \/ Printed("Summary Statistics:")) =>
              /\ FigureKinds = <<"line", "bonus", "heatmap">>
              /\ err = "none"
        /\ Printed("Summary Statistics:") = Began("summary")
        /\ err # "none" => (pc = "error" /\ ~ENABLED Next)
        /\ pc = "error" => err # "none"

\* a run whose file was read and whose bonus step raised
C9_Witness ==
    /\ entry = "main" /\ pc = "error" /\ err = "ValueError"
    /\ trace = <<"load", "derive", "line", "bonus">>
    /\ Printed("Reading from CSV file...")

\* C10: create_multiplier_charts changes the caller's table only by adding
\* the multiplier_decimal column: the tokens, lockup_days and multiplier
\* values, the number of rows and their order stay as they were, at every
\* step, and a second call on the same table leaves it as the first did.
WithoutDecimal(t) ==
    LET keep == {i \in 1..Len(t.columns) : t.columns[i] # "multiplier_decimal"}
        pos == SortedSet(keep)
    IN  [columns |-> [i \in 1..Len(pos) |-> t.columns[pos[i]]],
         rows |-> [r \in 1..Len(t.rows) |-> [i \in 1..Len(pos) |-> t.rows[r][pos[i]]]]]

C10_OnlyColumnAdded ==
    calls >= 1 =>
        /\ WithoutDecimal(df) = df0
        /\ Len(df.columns) <= Len(df0.columns) + 1
        /\ \A i \in 1..Len(returned) : returned[i] = df

C10_Witness ==
    /\ Len(returned) = 2
    /\ Len(df.rows) = 3
    /\ Len(figures) = 6
    /\ TokensOf(df.rows[1]) > TokensOf(df.rows[2])

=============================================================================
